---- MODULE Spec2Model ----
(***************************************************************************)
(* Model of the TLO mTLS proxy (src/app/server.js): the POST               *)
(* /tlo/person-search handler, its retry loop around callTlo, the SOAP     *)
(* envelope builder and the classification of the upstream response.       *)
(*                                                                         *)
(* JavaScript strings are TLA+ strings.  An XML document (the envelope,    *)
(* an upstream body) is kept as the sequence of its lexemes (tags and runs *)
(* of character data); Text(doc) is the string itself.                     *)
(***************************************************************************)
EXTENDS Integers, Sequences, FiniteSets, TLC

(***************************************************************************)
(* JavaScript values                                                       *)
(***************************************************************************)
Undefined == [kind |-> "undefined"]
Null      == [kind |-> "null"]
NaN       == [kind |-> "NaN"]
Bool(b)   == [kind |-> "boolean", b |-> b]
Num(n)    == [kind |-> "number", n |-> n]
Str(s)    == [kind |-> "string", s |-> s]
\* an array, kept with the elements' strings
Arr(e)    == [kind |-> "array", elems |-> e]
\* an object; for a parsed XML element, content is the element's lexemes
Obj(c)    == [kind |-> "object", content |-> c]

\* ToBoolean, as used by !x and x && y
Truthy(v) ==
  CASE v.kind = "undefined" -> FALSE
    [] v.kind = "null"      -> FALSE
    [] v.kind = "NaN"       -> FALSE
    [] v.kind = "boolean"   -> v.b
    [] v.kind = "number"    -> v.n # 0
    [] v.kind = "string"    -> v.s # ""
    [] OTHER                -> TRUE

DigitChars == <<"0", "1", "2", "3", "4", "5", "6", "7", "8", "9">>

DigitVal(c) == (CHOOSE i \in 1..10 : DigitChars[i] = c) - 1

IsDigits(s) == \A i \in 1..Len(s) : \E d \in 1..10 : DigitChars[d] = SubSeq(s, i, i)

RECURSIVE NatOfDigits(_)
NatOfDigits(s) ==
  IF s = "" THEN 0
  ELSE 10 * NatOfDigits(SubSeq(s, 1, Len(s) - 1)) + DigitVal(SubSeq(s, Len(s), Len(s)))

RECURSIVE DigitsOfNat(_)
DigitsOfNat(n) ==
  IF n < 10 THEN DigitChars[n + 1]
  ELSE DigitsOfNat(n \div 10) \o DigitChars[(n % 10) + 1]

RECURSIVE Join(_)
Join(e) ==
  IF e = <<>> THEN ""
  ELSE IF Len(e) = 1 THEN e[1]
  ELSE e[1] \o "," \o Join(Tail(e))

\* String(v)
String(v) ==
  CASE v.kind = "undefined" -> "undefined"
    [] v.kind = "null"      -> "null"
    [] v.kind = "NaN"       -> "NaN"
    [] v.kind = "boolean"   -> IF v.b THEN "true" ELSE "false"
    [] v.kind = "number"    -> DigitsOfNat(v.n)
    [] v.kind = "string"    -> v.s
    [] v.kind = "array"     -> Join(v.elems)
    [] OTHER                -> "[object Object]"

\* the value passed on as it is, a string staying a string
Number_Same(v) == v

\* Number(v) on the values the handler passes to it: a string of decimal
\* digits is its value, the empty string is 0, any other string, undefined
\* and an object are NaN.
Number(v) ==
  CASE v.kind = "string" ->
         IF IsDigits(v.s) THEN Num(NatOfDigits(v.s)) ELSE NaN
    [] v.kind = "number"  -> v
    [] v.kind = "boolean" -> Num(IF v.b THEN 1 ELSE 0)
    [] v.kind = "null"    -> Num(0)
    [] OTHER              -> NaN

(***************************************************************************)
(* UTILS: xmlEscape                                                        *)
(***************************************************************************)
RECURSIVE ReplaceAll(_, _, _)
\* s.replace(/c/g, rep) for a one-character pattern c
ReplaceAll(s, c, rep) ==
  IF s = "" THEN ""
  ELSE (IF Head(s) = c THEN rep ELSE Head(s)) \o ReplaceAll(Tail(s), c, rep)

\* the escape with the ampersand replaced last instead of first
xmlEscape_AmpLast(v) ==
  ReplaceAll(
    ReplaceAll(
      ReplaceAll(
        ReplaceAll(
          ReplaceAll(String(v), "<", "&lt;"),
          ">", "&gt;"),
        "\"", "&quot;"),
      "'", "&apos;"),
    "&", "&amp;")

xmlEscape(v) ==
  ReplaceAll(
    ReplaceAll(
      ReplaceAll(
        ReplaceAll(
          ReplaceAll(String(v), "&", "&amp;"),
          "<", "&lt;"),
        ">", "&gt;"),
      "\"", "&quot;"),
    "'", "&apos;")

(***************************************************************************)
(* XML lexemes                                                             *)
(***************************************************************************)
Open(n)     == "<" \o n \o ">"
Close(n)    == "</" \o n \o ">"
EmptyTag(n) == "<" \o n \o "/>"

XmlDecl == "<?xml version=\"1.0\" encoding=\"utf-8\"?>"

EnvelopeOpen ==
  "<soapenv:Envelope xmlns:soapenv=\"http://schemas.xmlsoap.org/soap/envelope/\" xmlns:tlo=\"http://tlo.com/\">"

\* the kind of a lexeme: a tag is "<" ... ">", anything else character data
Kind(l) ==
  IF Len(l) < 3 \/ Head(l) # "<" \/ SubSeq(l, Len(l), Len(l)) # ">" THEN "text"
  ELSE LET c == SubSeq(l, 2, 2) IN
       IF c = "?" THEN "decl"
       ELSE IF c = "/" THEN "close"
       ELSE IF SubSeq(l, Len(l) - 1, Len(l) - 1) = "/" THEN "empty"
       ELSE "open"

StartsWith(s, p) == Len(p) <= Len(s) /\ SubSeq(s, 1, Len(p)) = p

\* tag l is an open or empty tag of element n (attributes may follow the name)
HasName(l, n) ==
  \/ l = Open(n)
  \/ l = EmptyTag(n)
  \/ StartsWith(l, "<" \o n \o " ")

\* character data, or nothing when the text is empty
Chardata(s) == IF s = "" THEN <<>> ELSE <<s>>

Elem(n, s) == <<Open(n)>> \o Chardata(s) \o <<Close(n)>>

RECURSIVE Text(_)
\* the string a lexeme sequence stands for
Text(doc) == IF doc = <<>> THEN "" ELSE Head(doc) \o Text(Tail(doc))

(***************************************************************************)
(* UTILS: buildSoap                                                        *)
(***************************************************************************)
buildSoap(config, firstName, lastName, ssn) ==
  <<XmlDecl, "\n",
    EnvelopeOpen, "\n  ",
    EmptyTag("soapenv:Header"), "\n  ",
    Open("soapenv:Body"), "\n    ",
    Open("tlo:PersonSearch"), "\n      ",
    Open("tlo:genericSearchInput"), "\n        ">>
  \o Elem("tlo:Username", xmlEscape(config.TLO_USERNAME)) \o <<"\n        ">>
  \o Elem("tlo:Password", xmlEscape(config.TLO_PASSWORD)) \o <<"\n        ">>
  \o Elem("tlo:DPPAPurpose", "0") \o <<"\n        ">>
  \o Elem("tlo:GLBPurpose", "0") \o <<"\n        ">>
  \o Elem("tlo:NumberOfRecords", "25") \o <<"\n        ">>
  \o Elem("tlo:StartingRecord", "1") \o <<"\n        ">>
  \o <<Open("tlo:Name"), "\n          ">>
  \o Elem("tlo:FirstName", xmlEscape(firstName)) \o <<"\n          ">>
  \o Elem("tlo:LastName", xmlEscape(lastName)) \o <<"\n        ">>
  \o <<Close("tlo:Name"), "\n        ">>
  \o Elem("tlo:SSN", xmlEscape(ssn)) \o <<"\n      ">>
  \o <<Close("tlo:genericSearchInput"), "\n    ",
       Close("tlo:PersonSearch"), "\n  ",
       Close("soapenv:Body"), "\n",
       Close("soapenv:Envelope")>>

(***************************************************************************)
(* parseStringPromise(raw, { explicitArray: false })                       *)
(***************************************************************************)
IsSpace(s) ==
  \A i \in 1..Len(s) : SubSeq(s, i, i) \in { " ", "\n", "\t", "\r" }

Entities ==
  { <<"&amp;", "&">>, <<"&lt;", "<">>, <<"&gt;", ">">>,
    <<"&quot;", "\"">>, <<"&apos;", "'">> }

\* character data the strict parser accepts: no markup character, and every
\* ampersand begins one of the predefined entities
TextOk(s) ==
  \A i \in 1..Len(s) :
    LET c == SubSeq(s, i, i) IN
    /\ c # "<"
    /\ c = "&" => \E e \in Entities : StartsWith(SubSeq(s, i, Len(s)), e[1])

RECURSIVE DecodeFrom(_)
DecodeFrom(s) ==
  IF s = "" THEN ""
  ELSE IF Head(s) = "&"
       THEN LET e == CHOOSE e \in Entities : StartsWith(s, e[1])
            IN  e[2] \o DecodeFrom(SubSeq(s, Len(e[1]) + 1, Len(s)))
       ELSE Head(s) \o DecodeFrom(Tail(s))

\* the text of character data, entities replaced
Decode(s) ==
  IF \A i \in 1..Len(s) : SubSeq(s, i, i) # "&" THEN s ELSE DecodeFrom(s)

RECURSIVE Scan(_, _, _, _)
\* the strict parser's pass over the lexemes from index i, with the open
\* tags not yet closed on the stack: tags nest and match, there is exactly
\* one root element and no text outside it
Scan(doc, i, stack, roots) ==
  IF i > Len(doc) THEN stack = <<>> /\ roots = 1
  ELSE LET l == doc[i]
           k == Kind(l)
       IN
    CASE k = "decl" -> i = 1 /\ Scan(doc, i + 1, stack, roots)
      [] k = "open" ->
           /\ stack # <<>> \/ roots = 0
           /\ Scan(doc, i + 1, <<l>> \o stack, roots)
      [] k = "empty" ->
           /\ stack # <<>> \/ roots = 0
           /\ Scan(doc, i + 1, stack, IF stack = <<>> THEN roots + 1 ELSE roots)
      [] k = "close" ->
           /\ stack # <<>>
           /\ HasName(Head(stack), SubSeq(l, 3, Len(l) - 1))
           /\ Scan(doc, i + 1, Tail(stack),
                   IF Len(stack) = 1 THEN roots + 1 ELSE roots)
      [] OTHER ->
           /\ IF stack = <<>> THEN IsSpace(l) ELSE TextOk(l)
           /\ Scan(doc, i + 1, stack, roots)

WellFormed(doc) == Scan(doc, 1, <<>>, 0)

RECURSIVE MatchClose(_, _, _)
\* the index of the close tag that ends the element opened before index i
MatchClose(c, i, depth) ==
  LET k == Kind(c[i]) IN
  IF k = "open" THEN MatchClose(c, i + 1, depth + 1)
  ELSE IF k = "close"
       THEN IF depth = 0 THEN i ELSE MatchClose(c, i + 1, depth - 1)
       ELSE MatchClose(c, i + 1, depth)

RECURSIVE Children(_, _)
\* the child elements at the top level of content c, from index i on: the
\* tag of each and its content
Children(c, i) ==
  IF i > Len(c) THEN <<>>
  ELSE LET k == Kind(c[i]) IN
       IF k = "open"
       THEN LET j == MatchClose(c, i + 1, 0)
            IN  <<[tag |-> c[i], inner |-> SubSeq(c, i + 1, j - 1)]>>
                \o Children(c, j + 1)
       ELSE IF k = "empty"
            THEN <<[tag |-> c[i], inner |-> <<>>]>> \o Children(c, i + 1)
            ELSE Children(c, i + 1)

\* the value the parser builds for an element with content c: an object
\* when it has child elements, otherwise its text (the empty string for an
\* empty or whitespace-only element)
ValueOf(c) ==
  IF \E i \in 1..Len(c) : Kind(c[i]) \in { "open", "empty" } THEN Obj(c)
  ELSE LET t == Decode(Text(c))
       IN  IF IsSpace(t) THEN Str("") ELSE Str(t)

\* v[name]
Get(v, name) ==
  IF v.kind # "object" THEN Undefined
  ELSE LET m == SelectSeq(Children(v.content, 1), LAMBDA k : HasName(k.tag, name))
       IN  IF m = <<>> THEN Undefined
           ELSE IF Len(m) = 1 THEN ValueOf(m[1].inner)
           ELSE Arr([k \in 1..Len(m) |-> Text(m[k].inner)])

\* v?.[name]
OptGet(v, name) ==
  IF v.kind \in { "undefined", "null" } THEN Undefined ELSE Get(v, name)

\* the settlement of parseStringPromise: rejected with the parser's error, or
\* resolved with null (blank input) or with the object holding the root
parseStringPromise(raw) ==
  IF \A i \in 1..Len(raw) : IsSpace(raw[i])
  THEN [rejected |-> FALSE, value |-> Null]
  ELSE IF ~WellFormed(raw)
       THEN [rejected |-> TRUE, message |-> "Non-whitespace before first tag."]
       ELSE [rejected |-> FALSE, value |-> Obj(raw)]

(***************************************************************************)
(* CONFIG                                                                  *)
(***************************************************************************)
PORT       == 3000
TIMEOUT_MS == 20000
RETRIES    == 2

\* the length of the diagnostic excerpt, r.raw.slice(0, 500)
RAW_START  == 500

\* how far beyond RAW_START the long upstream bodies of the model reach
Overshoot == 2

Conns == { "c1", "c2" }

\* process.env at start: the shared secret may be missing or empty
Environments ==
  { [PORT |-> PORT, SHARED_SECRET |-> s, TLO_USERNAME |-> Str("acct77"),
     TLO_PASSWORD |-> Str("pw&9"), TIMEOUT_MS |-> TIMEOUT_MS,
     RETRIES |-> RETRIES] :
    s \in { Undefined, Str(""), Str("s3cret") } }

(***************************************************************************)
(* Inbound requests                                                        *)
(***************************************************************************)
\* req.header("x-shared-secret"): undefined when the header is missing
Headers == { Undefined, Str(""), Str("s3cret"), Str("guess") }

BaseFields ==
  [firstName |-> Str("Ann"), lastName |-> Str("O'Neil"), ssn |-> Str("123456789")]

FieldNames == { "firstName", "lastName", "ssn" }

\* JSON values of a field; Undefined is a missing key
FieldValues ==
  { Undefined, Null, Str(""), Str("a<b&c"), Num(0), Num(5), Bool(TRUE),
    Bool(FALSE), Arr(<<"x", "y">>), Obj(<<>>) }

\* req.body after express.json(): undefined without a body, else the object
Bodies ==
  { Undefined, BaseFields }
  \cup { [BaseFields EXCEPT ![f] = v] : f \in FieldNames, v \in FieldValues }
  \cup { [f \in FieldNames |-> Undefined] }

\* const { firstName, lastName, ssn } = req.body || {}
Destructure(body) ==
  IF body = Undefined THEN [f \in FieldNames |-> Undefined] ELSE body

(***************************************************************************)
(* Upstream                                                                *)
(***************************************************************************)
HttpStatuses == { 200, 500 }

\* err.message of a failed https request
TransportCauses == { "socket hang up" }

RECURSIVE X(_)
\* n characters of text
X(n) ==
  IF n <= 0 THEN ""
  ELSE IF n % 2 = 0 THEN LET h == X(n \div 2) IN h \o h
  ELSE "x" \o X(n - 1)

Field(n, f) ==
  IF f = <<>> THEN <<>>
  ELSE IF f[1] = "" THEN <<EmptyTag(n)>> ELSE Elem(n, f[1])

InResult(inner) ==
  <<XmlDecl, Open("soap:Envelope"), Open("soap:Body"),
    Open("PersonSearchResponse")>>
  \o inner
  \o <<Close("PersonSearchResponse"), Close("soap:Body"),
       Close("soap:Envelope")>>

\* a response with a result node; each field is <<>> (absent) or <<text>>
ResultBody(code, message, txn, n) ==
  InResult(<<Open("PersonSearchResult")>>
           \o Field("ErrorCode", code) \o Field("ErrorMessage", message)
           \o Field("TransactionId", txn) \o Field("NumberOfRecordsFound", n)
           \o <<Close("PersonSearchResult")>>)

ResultShapes ==
  { << <<"0">>,  <<"">>,         <<"T1">>, <<"3">>   >>,
    << <<"0">>,  <<>>,           <<"T1">>, <<"12">>  >>,
    << <<"0">>,  <<>>,           <<"T1">>, <<"abc">> >>,
    << <<"0">>,  <<>>,           <<"T1">>, <<>>      >>,
    << <<"0">>,  <<>>,           <<>>,     <<"">>    >>,
    << <<"12">>, <<"No match">>, <<"T1">>, <<>>      >>,
    << <<"">>,   <<"">>,         <<"T2">>, <<"3">>   >>,
    << <<>>,     <<>>,           <<"T2">>, <<"3">>   >> }

\* what the upstream may send back for the envelope it received
UpstreamBodies(envelope, config) ==
  { <<>>,
    <<"upstream connect error">>,
    <<XmlDecl, Open("soap:Envelope"), Open("soap:Body")>>,
    Elem("html", "Service Unavailable"),
    InResult(<<EmptyTag("PersonSearchResult")>>),
    InResult(Elem("PersonSearchResult", "done")),
    envelope,
    ResultBody(<<"7">>, <<"Login failed for " \o String(config.TLO_USERNAME)>>,
               <<>>, <<>>) }
  \cup { Elem("html", X(n - 13)) : n \in (RAW_START - 1)..(RAW_START + Overshoot) }
  \cup { ResultBody(t[1], t[2], t[3], t[4]) : t \in ResultShapes }

(***************************************************************************)
(* State                                                                   *)
(***************************************************************************)
VARIABLES
  CONFIG,    \* the process configuration
  pc,        \* per connection: "idle", "await" (suspended in callTlo), "done"
  req,       \* per connection: the request received (header and body)
  soap,      \* per connection: const soap
  attempt,   \* per connection: let attempt
  r,         \* per connection: const r, the exchange callTlo last resolved with
  socket,    \* per connection: the outbound request: "none", "pending",
             \*   "timeout" ('timeout' emitted, request still pending)
  sent,      \* per connection: the responses written to res
  outbound,  \* per connection: the attempt numbers of the calls made
  outcomes,  \* per connection: how each call settled
  logs       \* the lines written by log(), with the connection they are from

vars == <<CONFIG, pc, req, soap, attempt, r, socket, sent, outbound, outcomes, logs>>

NoRequest  == [header |-> Undefined, body |-> Undefined]
NoExchange == [httpStatus |-> 0, raw |-> <<>>]

Init ==
  /\ CONFIG \in Environments
  /\ pc = [c \in Conns |-> "idle"]
  /\ req = [c \in Conns |-> NoRequest]
  /\ soap = [c \in Conns |-> <<>>]
  /\ attempt = [c \in Conns |-> 0]
  /\ r = [c \in Conns |-> NoExchange]
  /\ socket = [c \in Conns |-> "none"]
  /\ sent = [c \in Conns |-> <<>>]
  /\ outbound = [c \in Conns |-> <<>>]
  /\ outcomes = [c \in Conns |-> <<>>]
  /\ logs = <<[by |-> "listen",
               line |-> [level |-> Str("info"), msg |-> Str("proxy_started"),
                         port |-> Num(CONFIG.PORT)]]>>

(***************************************************************************)
(* The handler                                                             *)
(***************************************************************************)
\* log(level, msg, extra): the line without its timestamp
log(level, msg, extra) ==
  [k \in { "level", "msg" } \cup DOMAIN extra |->
     IF k = "level" THEN Str(level) ELSE IF k = "msg" THEN Str(msg) ELSE extra[k]]

\* res.json(obj): undefined members are left out and NaN is written as null
json(obj) ==
  [k \in { k \in DOMAIN obj : obj[k] # Undefined } |->
     IF obj[k] = NaN THEN Null ELSE obj[k]]

\* req.header("x-shared-secret") !== CONFIG.SHARED_SECRET is false
Authorized(header, config) == header = config.SHARED_SECRET

\* the validation with the check of ssn forgotten
ValidInput_NoSsn(f) == Truthy(f.firstName) /\ Truthy(f.lastName)

\* !firstName || !lastName || !ssn is false
ValidInput(f) == Truthy(f.firstName) /\ Truthy(f.lastName) /\ Truthy(f.ssn)

\* r.raw.slice(0, 500)
rawStart(raw) ==
  LET t == Text(raw)
  IN  SubSeq(t, 1, IF Len(t) < RAW_START THEN Len(t) ELSE RAW_START)

\* parsed?.["soap:Envelope"]?.["soap:Body"]?.PersonSearchResponse
\*   ?.PersonSearchResult
ResultNode(parsed) ==
  OptGet(OptGet(OptGet(OptGet(parsed, "soap:Envelope"), "soap:Body"),
                "PersonSearchResponse"),
         "PersonSearchResult")

\* the comparison with "0" turned round
IsTloError_Inverted(result) ==
  LET ErrorCode == Get(result, "ErrorCode")
  IN  Truthy(ErrorCode) /\ ErrorCode = Str("0")

\* result.ErrorCode && result.ErrorCode !== "0"
IsTloError(result) ==
  LET ErrorCode == Get(result, "ErrorCode")
  IN  Truthy(ErrorCode) /\ ErrorCode # Str("0")

\* the try block after callTlo resolved with raw: the response it sends, or
\* the error it throws
TryBlock(raw) ==
  LET parsed == parseStringPromise(raw) IN
  IF parsed.rejected THEN [threw |-> TRUE, message |-> parsed.message]
  ELSE
    LET result == ResultNode(parsed.value) IN
    IF ~Truthy(result)
    THEN [threw |-> FALSE, status |-> 502,
          body |-> json([ok |-> Bool(FALSE), error |-> Str("SOAP_PARSE_FAILED"),
                         rawStart |-> Str(rawStart(raw))])]
    ELSE IF IsTloError(result)
    THEN [threw |-> FALSE, status |-> 200,
          body |-> json([ok |-> Bool(FALSE), tloError |-> Bool(TRUE),
                         errorCode |-> Get(result, "ErrorCode"),
                         errorMessage |-> Get(result, "ErrorMessage")])]
    ELSE [threw |-> FALSE, status |-> 200,
          body |-> json([ok |-> Bool(TRUE),
                         transactionId |-> Get(result, "TransactionId"),
                         recordsFound |-> Number(Get(result, "NumberOfRecordsFound")),
                         data |-> result])]

\* the bound of the retry budget taken one too high
GivesUp_OffByOne(n, config) == n > config.RETRIES + 1

\* attempt > CONFIG.RETRIES
GivesUp(n, config) == n > config.RETRIES

\* the response written without the return: the handler goes on
Respond_NoReturn(c, status, body) ==
  /\ sent' = [sent EXCEPT ![c] = Append(@, [status |-> status, body |-> body])]
  /\ pc' = pc
  /\ socket' = socket

\* res.status(status).json(body), and the handler returns
Respond(c, status, body) ==
  /\ sent' = [sent EXCEPT ![c] = Append(@, [status |-> status, body |-> body])]
  /\ pc' = [pc EXCEPT ![c] = "done"]
  /\ socket' = [socket EXCEPT ![c] = "none"]

\* the loop counter declared outside the handler, one for all requests
callTlo_Shared(c, n) ==
  /\ attempt' = [d \in Conns |-> n]
  /\ outbound' = [outbound EXCEPT ![c] = Append(@, n)]
  /\ socket' = [socket EXCEPT ![c] = "pending"]
  /\ pc' = [pc EXCEPT ![c] = "await"]

\* callTlo(soap) for attempt n: the request is written and the handler
\* suspends
callTlo(c, n) ==
  /\ attempt' = [attempt EXCEPT ![c] = n]
  /\ outbound' = [outbound EXCEPT ![c] = Append(@, n)]
  /\ socket' = [socket EXCEPT ![c] = "pending"]
  /\ pc' = [pc EXCEPT ![c] = "await"]

\* the failure logged only when the budget is used up
Catch_LogLast(c, message) ==
  IF GivesUp(attempt[c], CONFIG)
  THEN /\ logs' = Append(logs,
            [by |-> c,
             line |-> log("warn", "tlo_attempt_failed",
                          [attempt |-> Num(attempt[c]), err |-> Str(message)])])
       /\ Respond(c, 504, json([ok |-> Bool(FALSE), error |-> Str("TLO_TIMEOUT")]))
       /\ UNCHANGED <<attempt, outbound>>
  ELSE /\ UNCHANGED <<logs, sent>>
       /\ callTlo(c, attempt[c] + 1)

\* the catch block, then the next iteration of the loop
Catch(c, message) ==
  /\ logs' = Append(logs,
       [by |-> c,
        line |-> log("warn", "tlo_attempt_failed",
                     [attempt |-> Num(attempt[c]), err |-> Str(message)])])
  /\ IF GivesUp(attempt[c], CONFIG)
     THEN /\ Respond(c, 504, json([ok |-> Bool(FALSE), error |-> Str("TLO_TIMEOUT")]))
          /\ UNCHANGED <<attempt, outbound>>
     ELSE /\ callTlo(c, attempt[c] + 1)
          /\ UNCHANGED sent

\* a request arrives: authentication, validation, buildSoap and the first
\* iteration of the loop up to its await
Receive(c, header, body) ==
  /\ pc[c] = "idle"
  /\ req' = [req EXCEPT ![c] = [header |-> header, body |-> body]]
  /\ UNCHANGED <<CONFIG, outcomes, logs>>
  /\ IF ~Authorized(header, CONFIG)
     THEN /\ Respond(c, 401, json([ok |-> Bool(FALSE), error |-> Str("UNAUTHORIZED")]))
          /\ UNCHANGED <<soap, attempt, r, outbound>>
     ELSE LET f == Destructure(body) IN
          IF ~ValidInput(f)
          THEN /\ Respond(c, 400, json([ok |-> Bool(FALSE), error |-> Str("INVALID_INPUT")]))
               /\ UNCHANGED <<soap, attempt, r, outbound>>
          ELSE /\ soap' = [soap EXCEPT ![c] =
                             buildSoap(CONFIG, f.firstName, f.lastName, f.ssn)]
               /\ callTlo(c, 1)
               /\ UNCHANGED <<r, sent>>

\* res 'end': callTlo resolves with the status and the body, and the handler
\* resumes in the try block
ExchangeCompleted(c, httpStatus, raw) ==
  /\ pc[c] = "await"
  /\ outcomes' = [outcomes EXCEPT ![c] = Append(@, "completed")]
  /\ r' = [r EXCEPT ![c] = [httpStatus |-> httpStatus, raw |-> raw]]
  /\ UNCHANGED <<CONFIG, req, soap>>
  /\ LET t == TryBlock(raw) IN
     IF t.threw
     THEN Catch(c, t.message)
     ELSE /\ Respond(c, t.status, t.body)
          /\ UNCHANGED <<attempt, outbound, logs>>

\* req 'error': callTlo rejects and the handler resumes in the catch block
TransportFailed(c, cause) ==
  /\ pc[c] = "await"
  /\ outcomes' = [outcomes EXCEPT ![c] = Append(@, "transport")]
  /\ UNCHANGED <<CONFIG, req, soap, r>>
  /\ Catch(c, cause)

\* the socket has been idle for CONFIG.TIMEOUT_MS: the request emits
\* 'timeout'; callTlo registers no listener for it, so the request is not
\* destroyed and the promise stays pending
SocketTimeout(c) ==
  /\ pc[c] = "await"
  /\ socket[c] = "pending"
  /\ socket' = [socket EXCEPT ![c] = "timeout"]
  /\ UNCHANGED <<CONFIG, pc, req, soap, attempt, r, sent, outbound, outcomes, logs>>

\* one request on connection c1
Next ==
  \/ /\ pc["c1"] = "idle"
     /\ \E h \in Headers, b \in Bodies : Receive("c1", h, b)
  \/ /\ pc["c1"] = "await"
     /\ \E s \in HttpStatuses, raw \in UpstreamBodies(soap["c1"], CONFIG) :
          ExchangeCompleted("c1", s, raw)
  \/ \E cause \in TransportCauses : TransportFailed("c1", cause)
  \/ SocketTimeout("c1")

Spec == Init /\ [][Next]_vars

(***************************************************************************)
(* Properties                                                              *)
(***************************************************************************)
Response(status, error) ==
  [status |-> status, body |-> [ok |-> Bool(FALSE), error |-> Str(error)]]

\* the attempt-failure lines logged for connection c
FailureLogs(c) ==
  SelectSeq(logs, LAMBDA e : e.by = c /\ e.line.msg = Str("tlo_attempt_failed"))

Last(q) == q[Len(q)]

\* the caller does not present the shared secret: the header is missing or
\* empty, no secret is configured, or the two values differ
SecretNotPresented(header, secret) ==
  \/ header = Undefined
  \/ header = Str("")
  \/ secret = Undefined
  \/ header # secret

\* C1: a request whose x-shared-secret header differs from the configured
\* secret (a missing or empty header included, whatever the secret is, also
\* when none was configured) is answered 401 UNAUTHORIZED and makes no
\* outbound call.
C1_Unauthorized ==
  \A c \in Conns :
    (pc[c] # "idle" /\ SecretNotPresented(req[c].header, CONFIG.SHARED_SECRET))
      => /\ sent[c] = <<Response(401, "UNAUTHORIZED")>>
         /\ outbound[c] = <<>>

\* C2: an authenticated request with firstName, lastName or ssn absent or
\* empty (or with no body) is answered 400 INVALID_INPUT, makes no outbound
\* call and logs no attempt failure.
C2_InvalidInput ==
  \A c \in Conns :
    (/\ pc[c] # "idle"
     /\ req[c].header = CONFIG.SHARED_SECRET
     /\ \E f \in FieldNames : Destructure(req[c].body)[f] \in { Undefined, Str("") })
      => /\ pc[c] = "done"
         /\ sent[c] = <<Response(400, "INVALID_INPUT")>>
         /\ outbound[c] = <<>>
         /\ FailureLogs(c) = <<>>

\* an authenticated request whose only fault is an empty ssn has been
\* answered 400
C2_Witness ==
  /\ pc["c1"] = "done"
  /\ req["c1"].header = CONFIG.SHARED_SECRET
  /\ req["c1"].body = [BaseFields EXCEPT !.ssn = Str("")]
  /\ sent["c1"] = <<Response(400, "INVALID_INPUT")>>

Transports(k) == [i \in 1..k |-> "transport"]

\* the attempt numbers of the failure lines logged for connection c
FailedAttempts(c) ==
  [i \in 1..Len(FailureLogs(c)) |-> FailureLogs(c)[i].line.attempt]

\* the last call of connection c settled as a completed exchange, which r holds
Completed(c) == outcomes[c] # <<>> /\ Last(outcomes[c]) = "completed"

\* the result node of a body, undefined when the parser rejects the body
ResultOf(raw) ==
  LET parsed == parseStringPromise(raw)
  IN  IF parsed.rejected THEN Undefined ELSE ResultNode(parsed.value)

ParseFailed(raw) ==
  [status |-> 502,
   body |-> [ok |-> Bool(FALSE), error |-> Str("SOAP_PARSE_FAILED"),
             rawStart |-> Str(SubSeq(Text(raw), 1,
                                     IF Len(Text(raw)) < 500 THEN Len(Text(raw))
                                     ELSE 500))]]

\* the response that classifying a body gives: parse failure without a
\* result node, else upstream error or success
ClassificationOf(raw) ==
  LET t == TryBlock(raw)
  IN  IF t.threw THEN ParseFailed(raw) ELSE [status |-> t.status, body |-> t.body]

\* C3: when attempts 1..k fail at transport level and attempt k+1 returns a
\* completed exchange, the response is the classification of that body,
\* exactly k+1 outbound calls were made and exactly k failures were logged,
\* with attempt numbers 1..k in order.
C3_RetryThenComplete ==
  \A c \in Conns : \A k \in 0..RETRIES :
    outcomes[c] = Transports(k) \o <<"completed">>
      => /\ pc[c] = "done"
         /\ sent[c] = <<ClassificationOf(r[c].raw)>>
         /\ outbound[c] = [i \in 1..(k + 1) |-> i]
         /\ FailedAttempts(c) = [i \in 1..k |-> Num(i)]

\* C4: when all RETRIES+1 attempts fail at transport level the response is
\* 504 TLO_TIMEOUT after exactly RETRIES+1 calls and RETRIES+1 failure
\* lines; and a 504 TLO_TIMEOUT is only sent when every one of the
\* RETRIES+1 attempts failed at transport level.
C4_Exhaustion ==
  \A c \in Conns :
    /\ outcomes[c] = Transports(RETRIES + 1)
         => /\ pc[c] = "done"
            /\ sent[c] = <<Response(504, "TLO_TIMEOUT")>>
            /\ outbound[c] = [i \in 1..(RETRIES + 1) |-> i]
            /\ FailedAttempts(c) = [i \in 1..(RETRIES + 1) |-> Num(i)]
    /\ (\E i \in 1..Len(sent[c]) : sent[c][i] = Response(504, "TLO_TIMEOUT"))
         => outcomes[c] = Transports(RETRIES + 1)

\* C5: once an attempt returns a completed exchange, whatever its status and
\* body, no further outbound call is made and no failure line is logged for
\* that attempt.
C5_NoRetryAfterCompleted ==
  \A c \in Conns : \A i \in 1..Len(outcomes[c]) :
    outcomes[c][i] = "completed"
      => /\ Len(outbound[c]) = i
         /\ Len(FailureLogs(c)) = i - 1

\* C6: a completed exchange whose body has no result node (rejected by the
\* parser, of another schema, or empty) is answered 502 SOAP_PARSE_FAILED
\* with rawStart the first min(500, length) characters of the body.
C6_ParseFailure ==
  \A c \in Conns :
    (Completed(c) /\ ~Truthy(ResultOf(r[c].raw)))
      => /\ pc[c] = "done"
         /\ sent[c] = <<ParseFailed(r[c].raw)>>

TloErrorResponse(result) ==
  [status |-> 200,
   body |-> json([ok |-> Bool(FALSE), tloError |-> Bool(TRUE),
                  errorCode |-> Get(result, "ErrorCode"),
                  errorMessage |-> Get(result, "ErrorMessage")])]

C8_Success ==
  \A c \in Conns :
    LET result == ResultOf(r[c].raw)
        n == Get(result, "NumberOfRecordsFound")
    IN
    (/\ Completed(c)
     /\ Truthy(result)
     /\ Get(result, "ErrorCode") = Str("0")
     /\ n.kind = "string"
     /\ n.s # ""
     /\ IsDigits(n.s))
      => /\ pc[c] = "done"
         /\ sent[c] =
              <<[status |-> 200,
                 body |-> json([ok |-> Bool(TRUE),
                                transactionId |-> Get(result, "TransactionId"),
                                recordsFound |-> Num(NatOfDigits(n.s)),
                                data |-> result])]>>

\* the upstream reported 12 records on the third attempt
C8_Witness ==
  /\ Completed("c1")
  /\ Len(outcomes["c1"]) = 3
  /\ Get(ResultOf(r["c1"].raw), "NumberOfRecordsFound") = Str("12")
  /\ Len(sent["c1"]) = 1
  /\ sent["c1"][1].status = 200
  /\ sent["c1"][1].body.ok = Bool(TRUE)
  /\ sent["c1"][1].body.recordsFound = Num(12)
  /\ sent["c1"][1].body.transactionId = Str("T1")

\* the socket timer runs: an idle pending request does emit 'timeout'
FairSpec == Spec /\ WF_vars(SocketTimeout("c1"))

\* C9: every authenticated, valid request eventually receives a response:
\* an attempt the upstream never answers ends by the timeout.
C9_EventuallyAnswered == (pc["c1"] = "await") ~> (pc["c1"] = "done")

\* the strings held in a value
Strings(v) ==
  CASE v.kind = "string" -> { v.s }
    [] v.kind = "object" -> { Text(v.content) }
    [] v.kind = "array"  -> { v.elems[i] : i \in 1..Len(v.elems) }
    [] OTHER             -> {}

Contains(s, p) ==
  \E i \in 1..(Len(s) - Len(p) + 1) : SubSeq(s, i, i + Len(p) - 1) = p

\* the configured secrets
Credentials ==
  { v.s : v \in { v \in { CONFIG.TLO_USERNAME, CONFIG.TLO_PASSWORD,
                          CONFIG.SHARED_SECRET } :
                  v.kind = "string" /\ v.s # "" } }

\* C10: no log line and no response body contains the configured username,
\* password or shared secret.
C10_NoCredentialLeak ==
  \A p \in Credentials :
    /\ \A i \in 1..Len(logs) : \A k \in DOMAIN logs[i].line :
         \A s \in Strings(logs[i].line[k]) : ~Contains(s, p)
    /\ \A c \in Conns : \A i \in 1..Len(sent[c]) :
         \A k \in DOMAIN sent[c][i].body :
           \A s \in Strings(sent[c][i].body[k]) : ~Contains(s, p)

(***************************************************************************)
(* The envelope builder on every short text over the reserved characters   *)
(***************************************************************************)
\* the longest field text drawn
MaxLen == 3

EscAlphabet == { "&", "<", ">", "\"", "'", "a", ";" }

RECURSIVE StringsUpTo(_)
StringsUpTo(n) ==
  IF n = 0 THEN { "" }
  ELSE LET shorter == StringsUpTo(n - 1)
       IN  shorter \cup { t \o ch : t \in shorter, ch \in EscAlphabet }

\* every text up to MaxLen, and the entities themselves as input
EscStrings == StringsUpTo(MaxLen) \cup { e[1] : e \in Entities }

\* an authenticated request with one field drawn from EscStrings
EscNext ==
  /\ pc["c1"] = "idle"
  /\ \E f \in FieldNames, t \in EscStrings :
       Receive("c1", CONFIG.SHARED_SECRET, [BaseFields EXCEPT ![f] = Str(t)])

EscSpec == Init /\ [][EscNext]_vars

\* the text between the open and the close tag of element n in doc
ElementText(doc, n) ==
  LET i == CHOOSE i \in 1..Len(doc) : doc[i] = Open(n)
      j == CHOOSE j \in (i + 1)..Len(doc) :
             doc[j] = Close(n) /\ \A k \in (i + 1)..(j - 1) : doc[k] # Close(n)
  IN  Text(SubSeq(doc, i + 1, j - 1))

HasChar(t, ch) == \E i \in 1..Len(t) : SubSeq(t, i, i) = ch

\* the envelope's lexemes with the character data taken out
Skeleton(doc) == SelectSeq(doc, LAMBDA l : Kind(l) # "text")

FieldElement ==
  [firstName |-> "tlo:FirstName", lastName |-> "tlo:LastName", ssn |-> "tlo:SSN"]

\* the value a parser finds for field f in the envelope
ReadBack(doc, f) ==
  LET input == Get(Get(Get(Get(Obj(doc), "soapenv:Envelope"), "soapenv:Body"),
                       "tlo:PersonSearch"),
                   "tlo:genericSearchInput")
  IN  IF f = "ssn" THEN Get(input, "tlo:SSN")
      ELSE Get(Get(input, "tlo:Name"), FieldElement[f])

\* C11: the text buildSoap places in FirstName, LastName and SSN has no raw
\* <, >, " or ', each & in it begins one of the five entities, un-escaping
\* it gives the input back, and the envelope has the same elements for
\* every input (a conformant parser reads the input back from it).
C11_Escaped ==
  \A c \in Conns :
    soap[c] # <<>> =>
      /\ Skeleton(soap[c]) = Skeleton(buildSoap(CONFIG, Str("x"), Str("x"), Str("x")))
      /\ WellFormed(soap[c])
      /\ \A f \in FieldNames :
           LET t == ElementText(soap[c], FieldElement[f]) IN
           /\ \A ch \in { "<", ">", "\"", "'" } : ~HasChar(t, ch)
           /\ \A i \in 1..Len(t) :
                SubSeq(t, i, i) = "&" =>
                  \E e \in Entities : StartsWith(SubSeq(t, i, Len(t)), e[1])
           /\ DecodeFrom(t) = String(Destructure(req[c].body)[f])
           /\ ReadBack(soap[c], f) = Str(String(Destructure(req[c].body)[f]))

\* a last name made of reserved characters was put in the envelope escaped
C11_Witness ==
  /\ pc["c1"] = "await"
  /\ req["c1"].body.lastName = Str("&<'")
  /\ ElementText(soap["c1"], "tlo:LastName") = "&amp;&lt;&apos;"

\* the six outcomes of the handler
IsOutcome(resp) ==
  \/ resp = Response(401, "UNAUTHORIZED")
  \/ resp = Response(400, "INVALID_INPUT")
  \/ resp = Response(504, "TLO_TIMEOUT")
  \/ /\ resp.status = 502
     /\ DOMAIN resp.body = { "ok", "error", "rawStart" }
     /\ resp.body.ok = Bool(FALSE)
     /\ resp.body.error = Str("SOAP_PARSE_FAILED")
  \/ /\ resp.status = 200
     /\ resp.body.ok = Bool(TRUE)
     /\ "data" \in DOMAIN resp.body
  \/ /\ resp.status = 200
     /\ resp.body.ok = Bool(FALSE)
     /\ "tloError" \in DOMAIN resp.body
     /\ resp.body.tloError = Bool(TRUE)

\* the lines logged for connection c
LogsOf(c) == SelectSeq(logs, LAMBDA e : e.by = c)

C12_State ==
  \A c \in Conns :
    /\ Len(sent[c]) <= 1
    /\ pc[c] = "done" <=> Len(sent[c]) = 1
    /\ pc[c] = "done" => IsOutcome(sent[c][1])

C12_Step ==
  \A c \in Conns :
    sent[c] # <<>> =>
      /\ sent'[c] = sent[c]
      /\ outbound'[c] = outbound[c]
      /\ LogsOf(c)' = LogsOf(c)

\* C12: at most one response is ever sent for a request; when the handler
\* has finished, exactly one was sent and it is one of the six outcomes;
\* the handler never finishes without a response, and after the response no
\* outbound call is made and nothing is logged for the request.
C12_OneResponse == []C12_State /\ [][C12_Step]_vars

\* the third attempt failed and the request was answered 504, once
C12_Witness ==
  /\ pc["c1"] = "done"
  /\ outbound["c1"] = <<1, 2, 3>>
  /\ sent["c1"] = <<Response(504, "TLO_TIMEOUT")>>

\* C13: a request makes at most RETRIES+1 outbound calls, numbered 1, 2, ..
\* in increasing order without repetition, and never has more failure lines
\* than outbound calls.
C13_Budget ==
  \A c \in Conns :
    /\ Len(outbound[c]) <= RETRIES + 1
    /\ outbound[c] = [i \in 1..Len(outbound[c]) |-> i]
    /\ Len(FailureLogs(c)) <= Len(outbound[c])

\* the budget is used up: three calls, the third still pending
C13_Witness ==
  /\ pc["c1"] = "await"
  /\ outbound["c1"] = <<1, 2, 3>>
  /\ Len(FailureLogs("c1")) = 2

(***************************************************************************)
(* Two requests handled concurrently: the handlers of c1 and c2 interleave *)
(* at their awaits                                                         *)
(***************************************************************************)
ConcHeaders == { Str("s3cret"), Str("guess") }

ConcBodies ==
  { BaseFields,
    [BaseFields EXCEPT !.firstName = Str("Bo")],
    [BaseFields EXCEPT !.ssn = Str("")] }

ConcUpstream ==
  { <<"upstream connect error">>,
    ResultBody(<<"0">>, <<>>, <<"T1">>, <<"3">>),
    ResultBody(<<"12">>, <<"No match">>, <<"T1">>, <<>>) }

ConcInit == Init /\ CONFIG.SHARED_SECRET = Str("s3cret")

ConcNext ==
  \E c \in Conns :
    \/ /\ pc[c] = "idle"
       /\ \E h \in ConcHeaders, b \in ConcBodies : Receive(c, h, b)
    \/ /\ pc[c] = "await"
       /\ \E raw \in ConcUpstream : ExchangeCompleted(c, 200, raw)
    \/ \E cause \in TransportCauses : TransportFailed(c, cause)
    \/ SocketTimeout(c)

ConcSpec == ConcInit /\ [][ConcNext]_vars

\* the calls of connection c that have not settled
InFlight(c) == Len(outbound[c]) - Len(outcomes[c])

\* C14: a request has at most one outbound call in flight, and attempt k+1
\* is started only after attempt k settled as a transport failure, also
\* while another request is being handled.
C14_Sequential ==
  \A c \in Conns :
    /\ InFlight(c) \in { 0, 1 }
    /\ \A k \in 1..(Len(outbound[c]) - 1) :
         k <= Len(outcomes[c]) /\ outcomes[c][k] = "transport"

\* the part of C14 that the handler keeps: one call in flight at most, and
\* attempt k+1 started only after attempt k settled
C14_OneInFlight ==
  \A c \in Conns :
    /\ InFlight(c) \in { 0, 1 }
    /\ pc[c] = "await" <=> InFlight(c) = 1
    /\ \A k \in 1..(Len(outbound[c]) - 1) : k <= Len(outcomes[c])

\* C15: when attempt k+1 has been started, the failure of attempt k has been
\* logged with its number and its cause; when 504 is sent the failure of the
\* last attempt has been logged; every attempt that failed at transport level
\* has its line.
C15_Reported ==
  \A c \in Conns :
    /\ \A k \in 1..(Len(outbound[c]) - 1) :
         /\ Len(FailureLogs(c)) >= k
         /\ FailureLogs(c)[k].line.attempt = Num(k)
         /\ FailureLogs(c)[k].line.err.kind = "string"
         /\ FailureLogs(c)[k].line.err.s # ""
    /\ sent[c] = <<Response(504, "TLO_TIMEOUT")>> =>
         FailedAttempts(c) = [i \in 1..(RETRIES + 1) |-> Num(i)]
    /\ \A i \in 1..Len(outcomes[c]) :
         outcomes[c][i] = "transport" =>
           /\ Len(FailureLogs(c)) >= i
           /\ FailureLogs(c)[i].line.attempt = Num(i)
           /\ FailureLogs(c)[i].line.err.s \in TransportCauses

\* the second attempt is pending and the failure of the first is in the log
C15_Witness ==
  /\ pc["c1"] = "await"
  /\ outbound["c1"] = <<1, 2>>
  /\ outcomes["c1"] = <<"transport">>
  /\ FailedAttempts("c1") = <<Num(1)>>
  /\ FailureLogs("c1")[1].line.err = Str("socket hang up")

NonEmptyString(v) == v.kind = "string" /\ v.s # ""

\* C16: an outbound call is made only for a request whose firstName,
\* lastName and ssn are non-empty strings; an authenticated request with a
\* number, a boolean, an array or an object in one of them is answered 400
\* INVALID_INPUT without an outbound call.
C16_OnlyStrings ==
  \A c \in Conns :
    req[c] # NoRequest =>
      LET f == Destructure(req[c].body) IN
      /\ outbound[c] # <<>> => \A n \in FieldNames : NonEmptyString(f[n])
      /\ ( /\ Authorized(req[c].header, CONFIG)
           /\ \E n \in FieldNames :
                f[n].kind \in { "number", "boolean", "array", "object" } )
         => /\ sent[c] = <<Response(400, "INVALID_INPUT")>>
            /\ outbound[c] = <<>>

NumericText(v) == v.kind = "string" /\ v.s # "" /\ IsDigits(v.s)

\* C17: a completed exchange whose result has no error code other than "0"
\* and whose NumberOfRecordsFound is absent or not numeric is answered 502
\* SOAP_PARSE_FAILED; no 200 response with ok true has a recordsFound that is
\* not a number.
C17_CountIsNumber ==
  \A c \in Conns :
    (pc[c] = "done" /\ Completed(c)) =>
      LET result == ResultOf(r[c].raw)
          resp == sent[c][1]
      IN  /\ (resp.status = 200 /\ resp.body.ok = Bool(TRUE)) =>
               /\ "recordsFound" \in DOMAIN resp.body
               /\ resp.body.recordsFound.kind = "number"
          /\ ( /\ Truthy(result)
               /\ ~IsTloError(result)
               /\ ~NumericText(Get(result, "NumberOfRecordsFound")) )
             => resp = ParseFailed(r[c].raw)

\* C18: a request that ended in success, upstream business error, parse
\* failure or transport exhaustion has, besides the failure lines of its
\* attempts, a log line that names the outcome.
C18_FinalLogged ==
  \A c \in Conns :
    (pc[c] = "done" /\ outbound[c] # <<>>) =>
      \E i \in 1..Len(LogsOf(c)) :
        LogsOf(c)[i].line.msg # Str("tlo_attempt_failed")

\* what belongs to connection c
Local(c) ==
  <<pc[c], req[c], soap[c], attempt[c], r[c], socket[c], sent[c],
    outbound[c], outcomes[c], LogsOf(c)>>

Upto(k) == [i \in 1..k |-> i]

\* the number of settled calls of connection c that ended in the catch block
Failures(c) ==
  LET k == Len(outcomes[c])
  IN  IF k > 0 /\ outcomes[c][k] = "completed" /\ ~TryBlock(r[c].raw).threw
      THEN k - 1 ELSE k

\* the state of connection c as its own header, body and upstream outcomes
\* determine it
C19_Own ==
  \A c \in Conns :
    IF pc[c] = "idle"
    THEN Local(c) = <<"idle", NoRequest, <<>>, 0, NoExchange, "none", <<>>,
                      <<>>, <<>>, <<>>>>
    ELSE
      LET f == Destructure(req[c].body)
          k == Len(outcomes[c])
          nf == Failures(c)
      IN
      IF ~Authorized(req[c].header, CONFIG) \/ ~ValidInput(f)
      THEN /\ sent[c] = <<IF ~Authorized(req[c].header, CONFIG)
                          THEN Response(401, "UNAUTHORIZED")
                          ELSE Response(400, "INVALID_INPUT")>>
           /\ <<pc[c], soap[c], attempt[c], outbound[c], outcomes[c], LogsOf(c)>>
                = <<"done", <<>>, 0, <<>>, <<>>, <<>>>>
      ELSE
        /\ soap[c] = buildSoap(CONFIG, f.firstName, f.lastName, f.ssn)
        /\ LogsOf(c) = FailureLogs(c)
        /\ FailedAttempts(c) = [i \in 1..nf |-> Num(i)]
        /\ \A i \in 1..nf :
             FailureLogs(c)[i].line.err.s \in TransportCauses
               <=> outcomes[c][i] = "transport"
        /\ IF nf < k
           THEN <<pc[c], attempt[c], outbound[c], sent[c]>>
                  = <<"done", k, Upto(k), <<ClassificationOf(r[c].raw)>> >>
           ELSE IF GivesUp(k, CONFIG)
           THEN <<pc[c], attempt[c], outbound[c], sent[c]>>
                  = <<"done", k, Upto(k), <<Response(504, "TLO_TIMEOUT")>> >>
           ELSE <<pc[c], attempt[c], outbound[c], sent[c]>>
                  = <<"await", k + 1, Upto(k + 1), <<>> >>

\* a step leaves the configuration alone and touches one connection at most
C19_Frame ==
  /\ CONFIG' = CONFIG
  /\ \E c \in Conns : \A d \in Conns \ { c } : Local(d)' = Local(d)

\* C19: under every interleaving of two requests, the attempt counter, the
\* envelope, the log lines and the response of each are determined by its
\* own header, body and upstream outcomes, every step leaves the other
\* request's state as it was, and the configuration never changes.
C19_NoInterference == []C19_Own /\ [][C19_Frame]_vars

\* the two requests interleaved: c1 waits for its third attempt while c2 was
\* answered from its second, their failure lines alternating in the log
C19_Witness ==
  /\ pc["c1"] = "await" /\ attempt["c1"] = 3
  /\ pc["c2"] = "done" /\ attempt["c2"] = 2
  /\ sent["c2"][1].status = 200
  /\ req["c1"].body # req["c2"].body
  /\ Len(logs) = 4
  /\ logs[2].by = "c1" /\ logs[3].by = "c2" /\ logs[4].by = "c1"

====
